---- MODULE Spec2Model ----
(***************************************************************************)
(* Model of tmx_loader (src/src/tmx_loader/__init__.py): the conversion of  *)
(* a parsed Tiled map into a scene graph with collision geometry.           *)
(*                                                                          *)
(* Representation choices                                                   *)
(*  - A gid is a 32-bit unsigned value.  TLC's integers are 32-bit signed,  *)
(*    so a gid is held as [hi, lo]: hi is the top nibble (the four flag     *)
(*    bits, gid >> 28) and lo the low 28 bits (gid & 0x0FFFFFFF).  The flag *)
(*    constants are held shifted right by 28 in the same way.               *)
(*  - LMatrix4 is a 4x4 matrix used with row vectors (p * M), as in         *)
(*    Panda3D; `a *= b` is a = a * b.  Entries are exact integers: the      *)
(*    rotations of the code are all by 180 degrees, whose matrices are      *)
(*    integral.  The final normalising scale of the UV transform            *)
(*    (1/image_width, 1/image_height) is kept as a pair of divisors.        *)
(*  - An exception is a result whose err field names the exception class.   *)
(***************************************************************************)
EXTENDS Integers, Sequences, FiniteSets, TLC

None == "None"

(***************************************************************************)
(* Flag constants (lines 10-13), shifted right by FlagShift bits.           *)
(***************************************************************************)
FlagShift == 28
HORIZONTAL_FLIP_FLAG == 8
VERTICAL_FLIP_FLAG == 4
DIAGONAL_FLIP_FLAG == 2
HEXAGONAL_ROTATION_FLAG == 1

LoSize == 2 ^ FlagShift

\* The gid whose top nibble is hi and whose low 28 bits are lo.
Gid(hi, lo) == [hi |-> hi, lo |-> lo]

\* The gid of a small non-negative integer.
ToGid(n) == [hi |-> n \div LoSize, lo |-> n % LoSize]

\* The integer value of a gid whose top bit is clear.
IntOf(gid) == gid.hi * LoSize + gid.lo

\* gid & flag  (flag a single bit of the top nibble), as a truth value.
HasFlag(gid, flag) == (gid.hi \div flag) % 2 = 1

\* gid & ~flag
ClearFlag(gid, flag) == IF HasFlag(gid, flag) THEN [gid EXCEPT !.hi = @ - flag] ELSE gid

\* Variant: the mask leaves out HEXAGONAL_ROTATION_FLAG
ClearFlagsKeepHex(gid) ==
    ClearFlag(ClearFlag(ClearFlag(gid, HORIZONTAL_FLIP_FLAG), DIAGONAL_FLIP_FLAG),
              VERTICAL_FLIP_FLAG)

\* gid & ~(HORIZONTAL | DIAGONAL | VERTICAL | HEXAGONAL)   (lines 63-68, 190-195)
ClearFlags(gid) ==
    ClearFlag(ClearFlag(ClearFlag(ClearFlag(gid, HORIZONTAL_FLIP_FLAG),
                                  DIAGONAL_FLIP_FLAG),
                        VERTICAL_FLIP_FLAG),
              HEXAGONAL_ROTATION_FLAG)

\* `not gid`
IsZero(gid) == gid.hi = 0 /\ gid.lo = 0

(***************************************************************************)
(* LMatrix4 (panda3d.core), row-vector convention.                          *)
(***************************************************************************)
\* Rows are tuples: the matrices are values, not unevaluated expressions.
ident_mat == <<<<1, 0, 0, 0>>, <<0, 1, 0, 0>>, <<0, 0, 1, 0>>, <<0, 0, 0, 1>>>>

translate_mat(x, y, z) == <<<<1, 0, 0, 0>>, <<0, 1, 0, 0>>, <<0, 0, 1, 0>>, <<x, y, z, 1>>>>

scale_mat(x, y, z) == <<<<x, 0, 0, 0>>, <<0, y, 0, 0>>, <<0, 0, z, 0>>, <<0, 0, 0, 1>>>>

\* rotate_mat(180, axis): the half turn about axis, 2 a a^T / (a.a) - I.
\* The axis is normalised by the library; for the axes of the code the
\* entries are integers.
rotate_mat_180(axis) ==
    LET n2 == axis[1] * axis[1] + axis[2] * axis[2] + axis[3] * axis[3]
        e(i, j) == (2 * axis[i] * axis[j]) \div n2 - (IF i = j THEN 1 ELSE 0)
    IN <<<<e(1, 1), e(1, 2), e(1, 3), 0>>,
         <<e(2, 1), e(2, 2), e(2, 3), 0>>,
         <<e(3, 1), e(3, 2), e(3, 3), 0>>,
         <<0, 0, 0, 1>>>>

\* a * b
Mul(a, b) ==
    LET e(i, j) == a[i][1] * b[1][j] + a[i][2] * b[2][j] + a[i][3] * b[3][j]
                   + a[i][4] * b[4][j]
    IN <<<<e(1, 1), e(1, 2), e(1, 3), e(1, 4)>>,
         <<e(2, 1), e(2, 2), e(2, 3), e(2, 4)>>,
         <<e(3, 1), e(3, 2), e(3, 3), e(3, 4)>>,
         <<e(4, 1), e(4, 2), e(4, 3), e(4, 4)>>>>

\* m.xform_point(p) = (p, 1) * m
xform_point(m, p) ==
    LET e(j) == p[1] * m[1][j] + p[2] * m[2][j] + p[3] * m[3][j] + m[4][j]
    IN <<e(1), e(2), e(3)>>

(***************************************************************************)
(* Transform Codec                                                          *)
(***************************************************************************)
\* Lines 53-55
DiagonalPart(gid, transform) ==
    IF HasFlag(gid, DIAGONAL_FLIP_FLAG)
    THEN Mul(Mul(transform, rotate_mat_180(<<1, 0, -1>>)), translate_mat(1, 0, -1))
    ELSE transform

\* Lines 56-58
HorizontalPart(gid, transform) ==
    IF HasFlag(gid, HORIZONTAL_FLIP_FLAG)
    THEN Mul(Mul(transform, rotate_mat_180(<<0, 0, 1>>)), translate_mat(1, 0, 0))
    ELSE transform

\* Lines 59-61
VerticalPart(gid, transform) ==
    IF HasFlag(gid, VERTICAL_FLIP_FLAG)
    THEN Mul(Mul(transform, rotate_mat_180(<<1, 0, 0>>)), translate_mat(0, 0, 1))
    ELSE transform

extract_tile_transform(gid) ==
    [gid |-> ClearFlags(gid),
     transform |-> VerticalPart(gid, HorizontalPart(gid, DiagonalPart(gid, ident_mat)))]

(***************************************************************************)
(* Atlas Mapper                                                             *)
(***************************************************************************)
\* image_width / image_height of a tileset whose image dimensions are None.
NoDim == -1

\* Variant: row and column of divmod(tile_id, columns) taken the other way round
get_tile_uv_transform_swapped(tileset, tile_id) ==
    IF tileset.image_height = NoDim \/ tileset.image_width = NoDim
    THEN [err |-> "ValueError"]
    ELSE IF tileset.image_width = 0 \/ tileset.image_height = 0 \/ tileset.columns = 0
    THEN [err |-> "ZeroDivisionError"]
    ELSE
      [err |-> "none",
       num |-> Mul(Mul(scale_mat(tileset.tile_width, 1, tileset.tile_height),
                       translate_mat(tileset.margin, 0,
                         tileset.image_height - tileset.margin - tileset.tile_height)),
                   translate_mat(
                     (tile_id \div tileset.columns) * (tileset.tile_width + tileset.spacing),
                     0,
                     0 - (tile_id % tileset.columns)
                         * (tileset.tile_height + tileset.spacing))),
       den |-> <<tileset.image_width, tileset.image_height>>]

\* Lines 72-86.  The result is num * scale_mat(1/den[1], 1, 1/den[2]): num is
\* tile_scale * shift * translation (pixels, bottom-left origin) and den the
\* image dimensions that image_scale divides by.  (j, i) is
\* divmod(tile_id, columns).
get_tile_uv_transform(tileset, tile_id) ==
    IF tileset.image_height = NoDim \/ tileset.image_width = NoDim
    THEN [err |-> "ValueError"]
    ELSE IF tileset.image_width = 0 \/ tileset.image_height = 0 \/ tileset.columns = 0
    THEN [err |-> "ZeroDivisionError"]
    ELSE
      [err |-> "none",
       num |-> Mul(Mul(scale_mat(tileset.tile_width, 1, tileset.tile_height),
                       translate_mat(tileset.margin, 0,
                         tileset.image_height - tileset.margin - tileset.tile_height)),
                   translate_mat(
                     (tile_id % tileset.columns) * (tileset.tile_width + tileset.spacing),
                     0,
                     0 - (tile_id \div tileset.columns)
                         * (tileset.tile_height + tileset.spacing))),
       den |-> <<tileset.image_width, tileset.image_height>>]

\* The texture coordinate (x/den[1], z/den[2]) of a point q in pixels.
texcoord_of(q, den) == <<[n |-> q[1], d |-> den[1]], [n |-> q[3], d |-> den[2]]>>

\* uv_xform.xform_point(p), then (texcoord.x, texcoord.z) as exact fractions.
uv_point(uv_xform, p) == texcoord_of(xform_point(uv_xform.num, p), uv_xform.den)

(***************************************************************************)
(* Tile Batch Builder                                                       *)
(***************************************************************************)
\* Line 35
points == <<<<0, 0>>, <<0, 1>>, <<1, 1>>, <<1, 1>>, <<1, 0>>, <<0, 0>>>>

\* Lines 37-40: the row written for one point
geom_row(shape_xform, uv_xform, pt) ==
    [vertex |-> xform_point(shape_xform, <<pt[1], 0, pt[2]>>),
     texcoord |-> uv_point(uv_xform, <<pt[1], 0, pt[2]>>)]

\* Lines 36-40: the loop over the points
RECURSIVE geom_rows(_, _, _, _)
geom_rows(vertex_data, shape_xform, uv_xform, pts) ==
    IF pts = <<>> THEN vertex_data
    ELSE geom_rows(Append(vertex_data, geom_row(shape_xform, uv_xform, Head(pts))),
                   shape_xform, uv_xform, Tail(pts))

\* TileGeomBuilder.add_tile (lines 30-40): the vertex data after the call.
geom_add_tile(vertex_data, shape_xform, uv_xform) ==
    geom_rows(vertex_data, shape_xform, uv_xform, points)

\* Line 154, given the transforms of lines 152 and 153
arranger_emit(self, tile_transform, uv_transform) ==
    IF uv_transform.err # "none"
    THEN [err |-> uv_transform.err, vertex_data |-> self.vertex_data]
    ELSE [err |-> "none",
          vertex_data |-> geom_add_tile(self.vertex_data, tile_transform, uv_transform)]

\* Lines 149-154, given ex = extract_tile_transform(gid) of line 148
arranger_place(self, x, y, ex) ==
    arranger_emit(self,
      Mul(ex.transform,
          Mul(translate_mat(x, 0, 0 - y - 1),
              scale_mat(self.tileset.tile_width, 1, self.tileset.tile_height))),
      get_tile_uv_transform(self.tileset, IntOf(ex.gid) - self.tileset.firstgid))

\* Variant: the empty gid is not skipped
arranger_add_tile_no_skip(self, gid, x, y) ==
    arranger_place(self, x, y, extract_tile_transform(gid))

\* TileArranger.add_tile (lines 145-154): self is [tileset, vertex_data].
\* The result is the error raised ("none" for a normal return) and the
\* vertex data of the arranger's geom builder after the call.
arranger_add_tile(self, gid, x, y) ==
    IF IsZero(gid) THEN [err |-> "none", vertex_data |-> self.vertex_data]
    ELSE arranger_place(self, x, y, extract_tile_transform(gid))

\* TileArranger.generate_node (lines 156-162) with generate_geom (42-48): one
\* GeomNode 'tile' holding one triangle list over all rows of the vertex data.
generate_node(self) ==
    [name |-> "tile", num_vertices |-> Len(self.vertex_data),
     vertex_data |-> self.vertex_data]

(***************************************************************************)
(* Collider Registry                                                        *)
(***************************************************************************)
\* load_collider (lines 132-137)
load_collider(tiled_object) ==
    IF tiled_object.kind # "Rectangle"
    THEN [err |-> "UnsupportedError"]
    ELSE [err |-> "none",
          solid |-> [min |-> <<0, -16, 0 - tiled_object.size[2]>>,
                     max |-> <<tiled_object.size[1], 16, 0>>]]

\* Lines 175-177: the collision node of one tile, a sequence of solids.
RECURSIVE collision_node_of(_, _)
collision_node_of(tiled_objects, solids) ==
    IF tiled_objects = <<>> THEN [err |-> "none", solids |-> solids]
    ELSE IF load_collider(Head(tiled_objects)).err # "none"
    THEN [err |-> load_collider(Head(tiled_objects)).err, solids |-> solids]
    ELSE collision_node_of(Tail(tiled_objects),
                           Append(solids, load_collider(Head(tiled_objects)).solid))

\* Line 178: self.colliders[key] = node
SetItem(colliders, key, node) ==
    [k \in (DOMAIN colliders) \cup {key} |-> IF k = key THEN node ELSE colliders[k]]

\* Variant: the key is the local id
collider_key_local(tileset, tile) == ToGid(tile.id)

\* tileset.firstgid + tile.id, the key of line 178
collider_key(tileset, tile) == ToGid(tileset.firstgid + tile.id)

RECURSIVE load_colliders_loop(_, _, _)

\* Lines 175-178 for one tile, given its collision node
load_colliders_tile(colliders, tileset, tiles, node) ==
    IF node.err # "none"
    THEN [err |-> node.err, colliders |-> colliders]
    ELSE load_colliders_loop(
           SetItem(colliders, collider_key(tileset, Head(tiles)), node.solids),
           tileset, Tail(tiles))

\* Lines 172-178: the loop over tileset.tiles.values()
load_colliders_loop(colliders, tileset, tiles) ==
    IF tiles = <<>> THEN [err |-> "none", colliders |-> colliders]
    ELSE IF ~Head(tiles).objects.is_object_layer
    THEN load_colliders_loop(colliders, tileset, Tail(tiles))
    ELSE load_colliders_tile(colliders, tileset, tiles,
           collision_node_of(Head(tiles).objects.tiled_objects, <<>>))

\* ColliderHandler.load_colliders (lines 169-178): the error raised and the
\* registry after the call.
load_colliders(colliders, tileset) ==
    IF tileset.tiles_is_none THEN [err |-> "none", colliders |-> colliders]
    ELSE load_colliders_loop(colliders, tileset, tileset.tiles)

\* Variant: a miss stores an empty node under the gid (setdefault)
get_collider_setdefault(colliders, gid) ==
    [found |-> gid \in DOMAIN colliders,
     node |-> IF gid \in DOMAIN colliders THEN colliders[gid] ELSE <<>>,
     colliders |-> IF gid \in DOMAIN colliders THEN colliders
                   ELSE SetItem(colliders, gid, <<>>)]

\* ColliderHandler.get_collider (lines 180-181): the value returned and the
\* registry after the call.
get_collider(colliders, gid) ==
    [found |-> gid \in DOMAIN colliders,
     node |-> IF gid \in DOMAIN colliders THEN colliders[gid] ELSE <<>>,
     colliders |-> colliders]

\* attrs.Factory(dict) (line 167)
EmptyRegistry == [k \in {} |-> <<>>]

(***************************************************************************)
(* Map Assembler and Layer Composer (class MapLoader)                       *)
(*                                                                          *)
(* tiled_map.tilesets is a dict keyed by firstgid (pytiled_parser); it is   *)
(* held as the sequence of its values in insertion order.                   *)
(***************************************************************************)
\* Variant: the upper end of the range is included
InRangeInclusive(gid, tileset) ==
    /\ 0 <= IntOf(gid) - tileset.firstgid
    /\ IntOf(gid) - tileset.firstgid <= tileset.tile_count

\* Line 197
InRange(gid, tileset) ==
    /\ 0 <= IntOf(gid) - tileset.firstgid
    /\ IntOf(gid) - tileset.firstgid < tileset.tile_count

\* Lines 196-199: the scan of tilesets.values() from position k
RECURSIVE find_source_scan(_, _, _)
find_source_scan(tilesets, gid, k) ==
    IF k > Len(tilesets) THEN [err |-> "ValueError", index |-> 0]
    ELSE IF InRange(gid, tilesets[k]) THEN [err |-> "none", index |-> k]
    ELSE find_source_scan(tilesets, gid, k + 1)

\* MapLoader.find_source (lines 189-199): index is the position of the
\* returned tileset in tilesets.values().
find_source(tiled_map, gid) == find_source_scan(tiled_map.tilesets, ClearFlags(gid), 1)

\* The positions of the tilesets with the given key
KeyHits(tiled_map, key) ==
    {k \in 1..Len(tiled_map.tilesets) : tiled_map.tilesets[k].firstgid = key}

\* self.tiled_map.tilesets[key] (line 242): KeyError when no tileset has the key
tilesets_getitem(tiled_map, key) ==
    IF KeyHits(tiled_map, key) = {} THEN [err |-> "KeyError", index |-> 0]
    ELSE [err |-> "none", index |-> CHOOSE k \in KeyHits(tiled_map, key) : TRUE]

\* The cells of layer.data in the order of the loops of lines 243-244, each
\* with its column i and row j.
RECURSIVE CellsFrom(_, _)
CellsFrom(data, j) ==
    IF j > Len(data) THEN <<>>
    ELSE [i \in 1..Len(data[j]) |-> [gid |-> data[j][i], i |-> i - 1, j |-> j - 1]]
         \o CellsFrom(data, j + 1)

Cells(layer) == CellsFrom(layer.data, 1)

\* Lines 248-250: the child attached to collider_parent
collider_location(tiled_map, cell, node) ==
    [name |-> "collider_location",
     pos |-> <<cell.i * tiled_map.tile_size.width, 0,
               0 - cell.j * tiled_map.tile_size.height>>,
     node |-> node]

\* Lines 245-250, given a, the outcome of add_tile (line 245), and c, the
\* outcome of get_collider (line 246)
cell_result(tiled_map, st, cell, a, c) ==
    IF a.err # "none"
    THEN [err |-> a.err, vertex_data |-> st.vertex_data,
          collider_parent |-> st.collider_parent, colliders |-> st.colliders]
    ELSE [err |-> "none", vertex_data |-> a.vertex_data,
          collider_parent |->
            IF c.found
            THEN Append(st.collider_parent, collider_location(tiled_map, cell, c.node))
            ELSE st.collider_parent,
          colliders |-> c.colliders]

\* Lines 245-250, the body of the loop for one cell.  st holds the vertex
\* data of the layer's arranger, the children of collider_parent and the
\* registry; the result adds the error raised.
cell_step(tiled_map, tileset, st, cell) ==
    cell_result(tiled_map, st, cell,
      arranger_add_tile([tileset |-> tileset, vertex_data |-> st.vertex_data],
                        cell.gid, cell.i, cell.j),
      get_collider(st.colliders, cell.gid))

\* Lines 243-250
RECURSIVE cells_loop(_, _, _, _)
cells_loop(tiled_map, tileset, st, cells) ==
    IF cells = <<>> \/ st.err # "none" THEN st
    ELSE cells_loop(tiled_map, tileset,
                    cell_step(tiled_map, tileset, st, Head(cells)), Tail(cells))

\* Lines 240-242: the state the loop starts in
cells_start(colliders) ==
    [err |-> "none", vertex_data |-> <<>>, collider_parent |-> <<>>,
     colliders |-> colliders]

\* Lines 251-255: the layer node built from the finished loop state.
tile_layer_node(layer, tileset, st) ==
    [name |-> layer.name, kind |-> "TileLayer",
     cluster |-> generate_node([tileset |-> tileset, vertex_data |-> st.vertex_data]),
     collider_parent |-> st.collider_parent]

NoNode == [name |-> "", kind |-> "none"]

\* Lines 251-255, given the state st the loop ended in
tile_layer_end(layer, tileset, st) ==
    IF st.err # "none"
    THEN [err |-> st.err, node |-> NoNode, colliders |-> st.colliders]
    ELSE [err |-> "none", node |-> tile_layer_node(layer, tileset, st),
          colliders |-> st.colliders]

\* Lines 243-255, given t = tilesets[1] of line 242
tile_layer_with(tiled_map, colliders, layer, t) ==
    IF t.err # "none"
    THEN [err |-> t.err, node |-> NoNode, colliders |-> colliders]
    ELSE tile_layer_end(layer, tiled_map.tilesets[t.index],
           cells_loop(tiled_map, tiled_map.tilesets[t.index],
                      cells_start(colliders), Cells(layer)))

\* MapLoader.load_tile_layer (lines 238-255)
load_tile_layer(tiled_map, colliders, layer) ==
    tile_layer_with(tiled_map, colliders, layer, tilesets_getitem(tiled_map, 1))

\* Lines 221-222
object_node(tiled_object, tile) ==
    [name |-> tiled_object.name, kind |-> "object", tile |-> tile,
     pos |-> <<tiled_object.coordinates[1], 0, 0 - tiled_object.coordinates[2]>>,
     r |-> tiled_object.rotation]

\* Lines 211-220: the tile node under the object node
object_tile(tiled_map, tiled_object, tileset, a, c) ==
    [geom |-> generate_node([tileset |-> tileset, vertex_data |-> a.vertex_data]),
     pos |-> <<0, 0, tiled_object.size[2]>>,
     scale |-> <<[n |-> tiled_object.size[1], d |-> tiled_map.tile_size.width],
                 [n |-> tiled_object.size[2], d |-> tiled_map.tile_size.height]>>,
     colliders |-> IF c.found THEN <<c.node>> ELSE <<>>]

\* Lines 211-223, given a, the outcome of add_tile (line 210), and c, the
\* outcome of get_collider (line 218)
place_tile_end(tiled_map, colliders, tiled_object, tileset, a, c) ==
    IF a.err # "none"
    THEN [err |-> a.err, node |-> NoNode, colliders |-> colliders]
    ELSE IF tiled_map.tile_size.width = 0 \/ tiled_map.tile_size.height = 0
    THEN [err |-> "ZeroDivisionError", node |-> NoNode, colliders |-> colliders]
    ELSE [err |-> "none", colliders |-> c.colliders,
          node |-> object_node(tiled_object,
                     <<object_tile(tiled_map, tiled_object, tileset, a, c)>>)]

\* Lines 209-223, given src, the outcome of find_source (line 208)
place_tile(tiled_map, colliders, tiled_object, src) ==
    IF src.err # "none"
    THEN [err |-> src.err, node |-> NoNode, colliders |-> colliders]
    ELSE place_tile_end(tiled_map, colliders, tiled_object,
           tiled_map.tilesets[src.index],
           arranger_add_tile([tileset |-> tiled_map.tilesets[src.index],
                              vertex_data |-> <<>>],
                             tiled_object.gid, 0, 0),
           get_collider(colliders, tiled_object.gid))

\* MapLoader.place_object (lines 205-223)
place_object(tiled_map, colliders, tiled_object) ==
    IF tiled_object.kind # "Tile"
    THEN [err |-> "none", colliders |-> colliders,
          node |-> object_node(tiled_object, <<>>)]
    ELSE place_tile(tiled_map, colliders, tiled_object,
                    find_source(tiled_map, tiled_object.gid))

\* Lines 260-261 and 267-268: the loop state after one child was built
child_added(st, o) ==
    [err |-> o.err,
     children |-> IF o.err = "none" THEN Append(st.children, o.node) ELSE st.children,
     colliders |-> o.colliders]

\* Lines 259-261: the loop of load_object_layer; st is [err, children, colliders]
RECURSIVE objects_loop(_, _, _)
objects_loop(tiled_map, st, tiled_objects) ==
    IF tiled_objects = <<>> \/ st.err # "none" THEN st
    ELSE objects_loop(tiled_map,
           child_added(st, place_object(tiled_map, st.colliders, Head(tiled_objects))),
           Tail(tiled_objects))

\* Lines 258, 262, 265, 269: the node of a layer whose children were built
parent_node(layer, st) ==
    IF st.err # "none" THEN [err |-> st.err, node |-> NoNode, colliders |-> st.colliders]
    ELSE [err |-> "none", colliders |-> st.colliders,
          node |-> [name |-> layer.name, kind |-> layer.kind, children |-> st.children]]

children_start(colliders) == [err |-> "none", children |-> <<>>, colliders |-> colliders]

\* MapLoader.load_object_layer (lines 257-262)
load_object_layer(tiled_map, colliders, layer) ==
    parent_node(layer,
      objects_loop(tiled_map, children_start(colliders), layer.tiled_objects))

\* load_image_layer (lines 118-129): one card under the layer node.  The
\* texture is read from a file by the engine and is not part of the model.
load_image_layer(layer) ==
    [name |-> layer.name, kind |-> "ImageLayer", children |-> <<[name |-> layer.image]>>]

RECURSIVE load_layer(_, _, _)
RECURSIVE sublayers_loop(_, _, _)

\* Lines 266-268: the loop of load_layer_group; st is [err, children, colliders]
sublayers_loop(tiled_map, st, layers) ==
    IF layers = <<>> \/ st.err # "none" THEN st
    ELSE sublayers_loop(tiled_map,
           child_added(st, load_layer(tiled_map, st.colliders, Head(layers))),
           Tail(layers))

\* MapLoader.load_layer_group (lines 264-269)
load_layer_group(tiled_map, colliders, layer) ==
    parent_node(layer,
      sublayers_loop(tiled_map, children_start(colliders), layer.layers))

\* MapLoader.load_layer (lines 225-236)
load_layer(tiled_map, colliders, layer) ==
    CASE layer.kind = "TileLayer" -> load_tile_layer(tiled_map, colliders, layer)
      [] layer.kind = "ObjectLayer" -> load_object_layer(tiled_map, colliders, layer)
      [] layer.kind = "ImageLayer" ->
           [err |-> "none", node |-> load_image_layer(layer), colliders |-> colliders]
      [] layer.kind = "LayerGroup" -> load_layer_group(tiled_map, colliders, layer)
      [] OTHER -> [err |-> "UnsupportedError", node |-> NoNode, colliders |-> colliders]

\* MapLoader.load_tile_colliders (lines 201-203) from tileset k on: the error
\* raised and the registry after the call.
RECURSIVE load_tile_colliders_from(_, _, _)
load_tile_colliders_from(tilesets, st, k) ==
    IF k > Len(tilesets) \/ st.err # "none" THEN st
    ELSE load_tile_colliders_from(tilesets, load_colliders(st.colliders, tilesets[k]), k + 1)

load_tile_colliders(tiled_map, colliders) ==
    load_tile_colliders_from(tiled_map.tilesets, [err |-> "none", colliders |-> colliders], 1)

\* Variant: the orientation is not checked
validate_infinite_only(tiled_map) ==
    IF tiled_map.infinite THEN "UnsupportedError" ELSE "none"

\* The checks of the top-level load_map (lines 281-286): the error raised
validate(tiled_map) ==
    IF tiled_map.infinite THEN "UnsupportedError"
    ELSE IF tiled_map.orientation # "orthogonal" THEN "UnsupportedError"
    ELSE "none"

(***************************************************************************)
(* Inputs: parsed documents (pytiled_parser objects)                        *)
(***************************************************************************)
MaxLayers == 2      \* layers of a map
MaxRows == 1        \* rows of a tile layer composed cell by cell
MaxCols == 2        \* columns of such a layer
MaxLo == 16         \* low bits of the gids given to the codec and the lookups
MaxTileId == 1      \* local ids of the tiles carrying metadata
MaxMargin == 1      \* atlas margin, pixels
MaxSpacing == 1     \* atlas spacing, pixels
MaxColumns == 4     \* atlas columns
MaxAtlasRows == 2   \* atlas rows

Rectangle(w, h) == [kind |-> "Rectangle", name |-> "rect", size |-> <<w, h>>,
                    coordinates |-> <<0, 0>>, rotation |-> 0]
Ellipse(w, h) == [kind |-> "Ellipse", name |-> "ellipse", size |-> <<w, h>>,
                  coordinates |-> <<0, 0>>, rotation |-> 0]
TileObject(gid, w, h, x, y) ==
    [kind |-> "Tile", name |-> "tile_object", gid |-> gid, size |-> <<w, h>>,
     coordinates |-> <<x, y>>, rotation |-> 0]

\* A tile of a tileset: objects is an ObjectLayer or not.
TileWith(id, tiled_objects) ==
    [id |-> id, objects |-> [is_object_layer |-> TRUE, tiled_objects |-> tiled_objects]]
TilePlain(id) ==
    [id |-> id, objects |-> [is_object_layer |-> FALSE, tiled_objects |-> <<>>]]

Tileset(firstgid, tile_count, columns, image_width, image_height, tiles_is_none, tiles) ==
    [firstgid |-> firstgid, tile_count |-> tile_count, columns |-> columns,
     tile_width |-> 32, tile_height |-> 32, margin |-> 0, spacing |-> 0,
     image_width |-> image_width, image_height |-> image_height,
     tiles_is_none |-> tiles_is_none, tiles |-> tiles]

\* firstgid 1, ten tiles in four columns; local tile 4 (gid 5) has a collider
TilesetA == Tileset(1, 10, 4, 128, 96, FALSE, <<TilePlain(2), TileWith(4, <<Rectangle(32, 16)>>)>>)
\* the same atlas without tile metadata
TilesetAPlain == Tileset(1, 10, 4, 128, 96, TRUE, <<>>)
\* the same atlas with unknown image dimensions
TilesetANoImage == Tileset(1, 10, 4, NoDim, NoDim, TRUE, <<>>)
\* firstgid 11, five tiles
TilesetB == Tileset(11, 5, 5, 160, 32, TRUE, <<>>)
\* local tile 1 (gid 12) has a collider of two rectangles
TilesetBColl == Tileset(11, 5, 5, 160, 32, FALSE,
                        <<TileWith(1, <<Rectangle(16, 16), Rectangle(8, 8)>>)>>)
\* local tile 1 has a non-rectangular collider
TilesetBBad == Tileset(11, 5, 5, 160, 32, FALSE,
                       <<TileWith(0, <<Rectangle(32, 32)>>), TileWith(1, <<Ellipse(8, 8)>>)>>)
\* firstgid 21, four tiles: leaves gids 11..20 unowned after TilesetA
TilesetC == Tileset(21, 4, 2, 64, 64, TRUE, <<>>)

TilesetLists ==
    { <<TilesetA, TilesetB>>, <<TilesetA, TilesetBColl>>, <<TilesetAPlain, TilesetB>>,
      <<TilesetA, TilesetBBad>>, <<TilesetBColl>>, <<TilesetANoImage, TilesetB>> }

H5 == Gid(HORIZONTAL_FLIP_FLAG, 5)
DX5 == Gid(DIAGONAL_FLIP_FLAG + HEXAGONAL_ROTATION_FLAG, 5)

\* gids of the cells: empty, tile 4 of the first tileset, the same flipped,
\* owned by no tileset
CellGids == {ToGid(0), ToGid(5), H5, ToGid(100)}

TileLayer(name, data) == [kind |-> "TileLayer", name |-> name, data |-> data]
ObjectLayer(name, tiled_objects) ==
    [kind |-> "ObjectLayer", name |-> name, tiled_objects |-> tiled_objects]
ImageLayer(name, image) == [kind |-> "ImageLayer", name |-> name, image |-> image]
LayerGroup(name, layers) == [kind |-> "LayerGroup", name |-> name, layers |-> layers]

LayerPool ==
    { TileLayer("t1", <<<<ToGid(5), ToGid(0)>>>>),
      TileLayer("t2", <<<<H5, ToGid(7)>>, <<ToGid(12), ToGid(5)>>>>),
      TileLayer("t3", <<<<ToGid(100)>>>>),
      TileLayer("t4", <<>>),
      ObjectLayer("o1", <<TileObject(ToGid(5), 64, 32, 10, 20)>>),
      ObjectLayer("o2", <<Rectangle(4, 4), TileObject(DX5, 32, 32, 0, 0)>>),
      ObjectLayer("o3", <<TileObject(ToGid(100), 32, 32, 0, 0)>>),
      ObjectLayer("o4", <<TileObject(ToGid(12), 32, 32, 0, 0)>>),
      ImageLayer("i1", "bg.png"),
      LayerGroup("g1", <<TileLayer("t1", <<<<ToGid(5), ToGid(0)>>>>),
                         LayerGroup("g2", <<ObjectLayer("o1",
                             <<TileObject(ToGid(5), 64, 32, 10, 20)>>)>>)>>),
      [kind |-> "Other", name |-> "u1"] }

RECURSIVE SeqsUpTo(_, _)
SeqsUpTo(S, n) ==
    IF n = 0 THEN {<<>>}
    ELSE LET shorter == SeqsUpTo(S, n - 1)
         IN shorter \cup {Append(q, x) : q \in {r \in shorter : Len(r) = n - 1}, x \in S}

TiledMap(infinite, orientation, tilesets, layers) ==
    [infinite |-> infinite, orientation |-> orientation, map_file |-> "level",
     tile_size |-> [width |-> 32, height |-> 32],
     tilesets |-> tilesets, layers |-> layers]

Maps ==
    { TiledMap(inf, o, ts, ls) :
        inf \in BOOLEAN, o \in {"orthogonal", "isometric"},
        ts \in TilesetLists, ls \in SeqsUpTo(LayerPool, MaxLayers) }

\* Tile layers of the cell-by-cell composition: rectangular grids
GridLayers ==
    { TileLayer("grid", d) :
        d \in UNION { [1..r -> [1..c -> CellGids]] : r \in 1..MaxRows, c \in 1..MaxCols } }

\* Tileset lists of the lookups
FindTilesetLists ==
    { <<TilesetA, TilesetB>>, <<TilesetB>>, <<TilesetA, TilesetC>>, <<>> }

\* gids of the codec and the lookups: every flag combination
UnitGids == { Gid(hi, lo) : hi \in 0..15, lo \in (0..MaxLo) \cup {100} }

\* Tilesets of the registry: each local id 0..MaxTileId is absent, plain,
\* carries a rectangle, or carries an ellipse
TileVariants(id) ==
    { <<>>, <<TilePlain(id)>>, <<TileWith(id, <<Rectangle(32, 16)>>)>>,
      <<TileWith(id, <<Ellipse(8, 8)>>)>> }

RECURSIVE TileLists(_)
TileLists(id) ==
    IF id > MaxTileId THEN {<<>>}
    ELSE {v \o rest : v \in TileVariants(id), rest \in TileLists(id + 1)}

RegistryTilesets ==
    { Tileset(f, 5, 5, 160, 32, FALSE, t) : f \in {1, 11}, t \in TileLists(0) }
    \cup {TilesetB, TilesetBColl}

\* gids looked up in the registry: around the keys, plain and flagged
RegistryGids ==
    { Gid(hi, lo) : hi \in {0, HEXAGONAL_ROTATION_FLAG, HORIZONTAL_FLIP_FLAG},
                    lo \in UNION { f..(f + MaxTileId + 1) : f \in {0, 11} } }

\* Atlases: the image holds the cols x rows grid, with slack pixels to spare
\* (a negative slack cuts into the grid)
Atlas(tw, th, m, s, cols, rows, slack) ==
    [firstgid |-> 1, tile_count |-> cols * rows, columns |-> cols,
     tile_width |-> tw, tile_height |-> th, margin |-> m, spacing |-> s,
     image_width |-> m + cols * (tw + s) - s + slack,
     image_height |-> m + rows * (th + s) - s + slack,
     tiles_is_none |-> TRUE, tiles |-> <<>>]

Atlases ==
    { Atlas(32, th, m, s, cols, rows, slack) :
        th \in {16, 32}, m \in 0..MaxMargin, s \in 0..MaxSpacing,
        cols \in 1..MaxColumns, rows \in 1..MaxAtlasRows, slack \in {-8, 0, 3} }
    \cup {TilesetANoImage}

(***************************************************************************)
(* State                                                                    *)
(***************************************************************************)
VARIABLES
    tiled_map,        \* the parsed map of the load in progress
    pc,               \* position of the load in progress
    colliders,        \* ColliderHandler.colliders
    ts_idx,           \* tilesets whose colliders have been loaded
    layer_idx,        \* top-level layers composed
    map_root,         \* the root node: constructed flag and children
    error,            \* the exception the load ended with
    result,           \* the node returned by load_map
    cur_layer,        \* the tile layer being composed cell by cell
    cell_idx,         \* cells of cur_layer done
    vertex_data,      \* vertex data of the arranger of cur_layer
    collider_parent,  \* children of 'cluster_collider' of cur_layer
    call,             \* the last call of a function on its own, and
    ret               \* what it returned

vars == <<tiled_map, pc, colliders, ts_idx, layer_idx, map_root, error, result,
          cur_layer, cell_idx, vertex_data, collider_parent, call, ret>>

loadVars == <<tiled_map, pc, ts_idx, layer_idx, map_root, error, result>>
cellVars == <<cur_layer, cell_idx, vertex_data, collider_parent>>
callVars == <<call, ret>>

NoRoot == [constructed |-> FALSE, name |-> "", children |-> <<>>]
NoLayer == TileLayer("", <<>>)
NoCall == [op |-> "none"]
NoRet == [err |-> "none"]
NoMap == TiledMap(FALSE, "orthogonal", <<>>, <<>>)

IdleCells ==
    /\ cur_layer = NoLayer /\ cell_idx = 0
    /\ vertex_data = <<>> /\ collider_parent = <<>>

IdleCalls == call = NoCall /\ ret = NoRet

IdleLoad ==
    /\ ts_idx = 0 /\ layer_idx = 0 /\ map_root = NoRoot
    /\ error = "none" /\ result = NoNode

(***************************************************************************)
(* The top-level load_map (lines 279-289), step by step                     *)
(***************************************************************************)
\* Line 280: the parser has returned the map
Init ==
    /\ tiled_map \in Maps
    /\ pc = "validate"
    /\ colliders = EmptyRegistry
    /\ IdleLoad /\ IdleCells /\ IdleCalls

Raise(e) ==
    /\ pc' = "failed"
    /\ error' = e

\* Lines 281-287
Validate ==
    /\ pc = "validate"
    /\ IF validate(tiled_map) # "none"
       THEN /\ Raise(validate(tiled_map))
            /\ UNCHANGED colliders
       ELSE /\ pc' = "colliders"
            /\ colliders' = EmptyRegistry
            /\ UNCHANGED error
    /\ UNCHANGED <<tiled_map, ts_idx, layer_idx, map_root, result>>
    /\ UNCHANGED <<cellVars, callVars>>

\* The effect of the outcome r of load_colliders (line 203)
CollidersLoaded(r) ==
    /\ colliders' = r.colliders
    /\ IF r.err # "none"
       THEN Raise(r.err) /\ UNCHANGED ts_idx
       ELSE ts_idx' = ts_idx + 1 /\ UNCHANGED <<pc, error>>

\* Lines 202-203, one iteration of load_tile_colliders
LoadTileColliders ==
    /\ pc = "colliders"
    /\ ts_idx < Len(tiled_map.tilesets)
    /\ CollidersLoaded(load_colliders(colliders, tiled_map.tilesets[ts_idx + 1]))
    /\ UNCHANGED <<tiled_map, layer_idx, map_root, result>>
    /\ UNCHANGED <<cellVars, callVars>>

\* Line 272, after the loop of load_tile_colliders has ended
MakeRoot ==
    /\ pc = "colliders"
    /\ ts_idx = Len(tiled_map.tilesets)
    /\ pc' = "layers"
    /\ map_root' = [constructed |-> TRUE, name |-> tiled_map.map_file, children |-> <<>>]
    /\ UNCHANGED <<tiled_map, colliders, ts_idx, layer_idx, error, result>>
    /\ UNCHANGED <<cellVars, callVars>>

\* The effect of the outcome r of load_layer (lines 274-275)
LayerLoaded(r) ==
    /\ colliders' = r.colliders
    /\ IF r.err # "none"
       THEN Raise(r.err) /\ UNCHANGED <<layer_idx, map_root>>
       ELSE /\ layer_idx' = layer_idx + 1
            /\ map_root' = [map_root EXCEPT !.children = Append(@, r.node)]
            /\ UNCHANGED <<pc, error>>

\* Lines 273-275, one iteration of MapLoader.load_map
LoadLayer ==
    /\ pc = "layers"
    /\ layer_idx < Len(tiled_map.layers)
    /\ LayerLoaded(load_layer(tiled_map, colliders, tiled_map.layers[layer_idx + 1]))
    /\ UNCHANGED <<tiled_map, ts_idx, result>>
    /\ UNCHANGED <<cellVars, callVars>>

\* Lines 276 and 289
Return ==
    /\ pc = "layers"
    /\ layer_idx = Len(tiled_map.layers)
    /\ pc' = "done"
    /\ result' = map_root
    /\ UNCHANGED <<tiled_map, colliders, ts_idx, layer_idx, map_root, error>>
    /\ UNCHANGED <<cellVars, callVars>>

Next == Validate \/ LoadTileColliders \/ MakeRoot \/ LoadLayer \/ Return

Spec == Init /\ [][Next]_vars

(***************************************************************************)
(* MapLoader.load_tile_layer (lines 238-255), cell by cell, on a loader     *)
(* whose registry load_tile_colliders has filled.                           *)
(***************************************************************************)
InitCells ==
    /\ \E ts \in TilesetLists, layer \in GridLayers :
         /\ tiled_map = TiledMap(FALSE, "orthogonal", ts, <<layer>>)
         /\ load_tile_colliders(tiled_map, EmptyRegistry).err = "none"
         /\ colliders = load_tile_colliders(tiled_map, EmptyRegistry).colliders
         /\ cur_layer = layer
    /\ pc = "tile_layer"
    /\ ts_idx = Len(tiled_map.tilesets)
    /\ layer_idx = 0
    /\ map_root = [constructed |-> TRUE, name |-> tiled_map.map_file, children |-> <<>>]
    /\ error = "none" /\ result = NoNode
    /\ cell_idx = 0 /\ vertex_data = <<>> /\ collider_parent = <<>>
    /\ IdleCalls

\* The tileset of the layer's arranger (line 242)
ArrangerTileset == tiled_map.tilesets[tilesets_getitem(tiled_map, 1).index]

\* Lines 239-242
BeginTileLayer ==
    /\ pc = "tile_layer"
    /\ IF tilesets_getitem(tiled_map, 1).err # "none"
       THEN Raise(tilesets_getitem(tiled_map, 1).err)
       ELSE pc' = "cells" /\ UNCHANGED error
    /\ UNCHANGED <<tiled_map, colliders, ts_idx, layer_idx, map_root, result>>
    /\ UNCHANGED <<cellVars, callVars>>

\* The effect of the outcome st of the loop body (lines 245-250)
CellDone(st) ==
    /\ vertex_data' = st.vertex_data
    /\ collider_parent' = st.collider_parent
    /\ colliders' = st.colliders
    /\ IF st.err # "none"
       THEN Raise(st.err) /\ UNCHANGED cell_idx
       ELSE cell_idx' = cell_idx + 1 /\ UNCHANGED <<pc, error>>

\* Lines 243-250, one iteration
ComposeCell ==
    /\ pc = "cells"
    /\ cell_idx < Len(Cells(cur_layer))
    /\ CellDone(cell_step(tiled_map, ArrangerTileset,
                          [err |-> "none", vertex_data |-> vertex_data,
                           collider_parent |-> collider_parent, colliders |-> colliders],
                          Cells(cur_layer)[cell_idx + 1]))
    /\ UNCHANGED <<tiled_map, ts_idx, layer_idx, map_root, result, cur_layer, callVars>>

\* Lines 251-255, and the reparenting of line 275
EndTileLayer ==
    /\ pc = "cells"
    /\ cell_idx = Len(Cells(cur_layer))
    /\ pc' = "composed"
    /\ layer_idx' = layer_idx + 1
    /\ map_root' = [map_root EXCEPT !.children =
          Append(@, tile_layer_node(cur_layer, ArrangerTileset,
                      [vertex_data |-> vertex_data, collider_parent |-> collider_parent]))]
    /\ UNCHANGED <<tiled_map, colliders, ts_idx, error, result>>
    /\ UNCHANGED <<cellVars, callVars>>

NextCells == BeginTileLayer \/ ComposeCell \/ EndTileLayer

SpecCells == InitCells /\ [][NextCells]_vars

(***************************************************************************)
(* The functions of the module called on their own                          *)
(***************************************************************************)
\* The calls: a function and its arguments
ExtractCalls == { [op |-> "extract_tile_transform", gid |-> gid] : gid \in UnitGids }

FindSourceCalls ==
    { [op |-> "find_source", tilesets |-> ts, gid |-> gid] :
        ts \in FindTilesetLists, gid \in UnitGids }

UvCalls ==
    UNION { { [op |-> "get_tile_uv_transform", tileset |-> tileset, tile_id |-> tile_id] :
                tile_id \in -1..tileset.tile_count } : tileset \in Atlases }

InitFunctions ==
    /\ tiled_map = NoMap
    /\ pc = "call"
    /\ colliders = EmptyRegistry
    /\ IdleLoad /\ IdleCells
    /\ call \in ExtractCalls \cup FindSourceCalls \cup UvCalls
    /\ ret = NoRet

Returned(r) ==
    /\ pc = "call"
    /\ pc' = "returned"
    /\ ret' = r
    /\ UNCHANGED <<tiled_map, colliders, ts_idx, layer_idx, map_root, error, result>>
    /\ UNCHANGED <<cellVars, call>>

CallExtractTileTransform ==
    /\ call.op = "extract_tile_transform"
    /\ Returned(extract_tile_transform(call.gid))

CallFindSource ==
    /\ call.op = "find_source"
    /\ Returned(find_source(TiledMap(FALSE, "orthogonal", call.tilesets, <<>>), call.gid))

CallGetTileUvTransform ==
    /\ call.op = "get_tile_uv_transform"
    /\ Returned(get_tile_uv_transform(call.tileset, call.tile_id))

NextFunctions == CallExtractTileTransform \/ CallFindSource \/ CallGetTileUvTransform

SpecFunctions == InitFunctions /\ [][NextFunctions]_vars

(***************************************************************************)
(* A ColliderHandler on its own                                             *)
(***************************************************************************)
\* A new ColliderHandler() (lines 165-167)
InitRegistry ==
    /\ tiled_map = NoMap
    /\ pc = "idle"
    /\ colliders = EmptyRegistry
    /\ IdleLoad /\ IdleCells /\ IdleCalls

\* The effect of the outcome r of load_colliders
LoadCollidersDone(r) ==
    /\ ret' = [err |-> r.err]
    /\ colliders' = r.colliders

CallLoadColliders ==
    /\ \E tileset \in RegistryTilesets :
         /\ call' = [op |-> "load_colliders", tileset |-> tileset, before |-> colliders]
         /\ LoadCollidersDone(load_colliders(colliders, tileset))
    /\ UNCHANGED <<loadVars, cellVars>>

\* The effect of the outcome r of get_collider
GetColliderDone(r) ==
    /\ ret' = [err |-> "none", found |-> r.found, node |-> r.node]
    /\ colliders' = r.colliders

CallGetCollider ==
    /\ \E gid \in RegistryGids :
         /\ call' = [op |-> "get_collider", gid |-> gid, before |-> colliders]
         /\ GetColliderDone(get_collider(colliders, gid))
    /\ UNCHANGED <<loadVars, cellVars>>

NextRegistry == CallLoadColliders \/ CallGetCollider

SpecRegistry == InitRegistry /\ [][NextRegistry]_vars

(***************************************************************************)
(* Properties                                                               *)
(***************************************************************************)
Corners == {<<0, 0, 0>>, <<1, 0, 0>>, <<0, 0, 1>>, <<1, 0, 1>>}

\* The three flip flags of a gid, as a number 0..7
FlipBits(gid) == gid.hi \div (2 * HEXAGONAL_ROTATION_FLAG)

\* Where a transform sends the corners of the unit quad
CornerMap(transform) == [c \in Corners |-> xform_point(transform, c)]

ExtractReturned == pc = "returned" /\ call.op = "extract_tile_transform"

\* C1: for each of the 8 combinations of the flip flags the transform
\* returned by extract_tile_transform maps the four corners of the unit quad
\* onto the same four corners, different combinations give different corner
\* mappings, and the gid with only the horizontal flag maps (0,0) to (1,0).
C1_FlipsPermuteCorners ==
    ExtractReturned =>
      /\ {xform_point(ret.transform, c) : c \in Corners} = Corners
      /\ \A g \in UnitGids :
           FlipBits(g) # FlipBits(call.gid) =>
             CornerMap(extract_tile_transform(g).transform) # CornerMap(ret.transform)
      /\ (call.gid.hi = HORIZONTAL_FLIP_FLAG =>
            xform_point(ret.transform, <<0, 0, 0>>) = <<1, 0, 0>>)

\* C8: extract_tile_transform returns the gid with all four flag bits
\* cleared and the low 28 bits unchanged, and the identity transform when
\* none of the three flip flags is set.
C8_FlagsCleared ==
    ExtractReturned =>
      /\ ret.gid = Gid(0, call.gid.lo)
      /\ (FlipBits(call.gid) = 0 => ret.transform = ident_mat)

C8_Witness ==
    /\ ExtractReturned
    /\ call.gid = Gid(HEXAGONAL_ROTATION_FLAG, 5)
    /\ ret.gid = Gid(0, 5)
    /\ ret.transform = ident_mat

\* The positions of the tilesets whose gid range holds the base id
Owners(tilesets, base) ==
    {k \in 1..Len(tilesets) :
        tilesets[k].firstgid <= base /\ base < tilesets[k].firstgid + tilesets[k].tile_count}

\* C3: find_source returns the tileset T with 0 <= base - T.firstgid <
\* T.tile_count, base being the gid without its four flag bits, and fails with
\* a lookup error when there is none; with tilesets 1/10 and 11/5, gid 15
\* gives the second tileset and gids 0 and 100 fail.
C3_FindSource ==
    (pc = "returned" /\ call.op = "find_source") =>
      /\ Owners(call.tilesets, call.gid.lo) # {} =>
           ret.err = "none" /\ ret.index \in Owners(call.tilesets, call.gid.lo)
      /\ Owners(call.tilesets, call.gid.lo) = {} => ret.err = "ValueError"
      /\ (call.tilesets = <<TilesetA, TilesetB>> /\ call.gid.lo = 15) =>
           ret.err = "none" /\ ret.index = 2
      /\ (call.tilesets = <<TilesetA, TilesetB>> /\ call.gid.lo \in {0, 100}) =>
           ret.err = "ValueError"

C3_Witness ==
    /\ pc = "returned" /\ call.op = "find_source"
    /\ call.tilesets = <<TilesetA, TilesetB>>
    /\ call.gid = Gid(HORIZONTAL_FLIP_FLAG, 15)
    /\ ret.err = "none" /\ ret.index = 2

\* The atlas image holds the whole tile grid of the tileset
HoldsGrid(tileset) ==
    /\ tileset.image_width # NoDim /\ tileset.image_height # NoDim
    /\ tileset.columns > 0
    /\ tileset.image_width >=
         tileset.margin + tileset.columns * (tileset.tile_width + tileset.spacing)
         - tileset.spacing
    /\ tileset.image_height >=
         tileset.margin
         + ((tileset.tile_count + tileset.columns - 1) \div tileset.columns)
           * (tileset.tile_height + tileset.spacing)
         - tileset.spacing

\* The pixel origin of a tile, top-left image origin
OriginX(tileset, tile_id) ==
    tileset.margin + (tile_id % tileset.columns) * (tileset.tile_width + tileset.spacing)
OriginY(tileset, tile_id) ==
    tileset.margin + (tile_id \div tileset.columns) * (tileset.tile_height + tileset.spacing)

UvReturned == pc = "returned" /\ call.op = "get_tile_uv_transform"

\* C7: for a tileset whose image holds its tile grid and a local index
\* 0 <= tile_id < tile_count, get_tile_uv_transform maps the unit quad onto
\* the tile_width x tile_height pixel rectangle at (margin + col*(tile_width +
\* spacing), margin + row*(tile_height + spacing)), flipped to a bottom-left
\* origin, and the four UV corners lie in [0,1] x [0,1]; 32x32 tiles in 4
\* columns of a 128x64 image put index 5 at pixel origin (32,32).
C7_AtlasRectangle ==
    (/\ UvReturned
     /\ HoldsGrid(call.tileset)
     /\ 0 <= call.tile_id /\ call.tile_id < call.tileset.tile_count) =>
      /\ ret.err = "none"
      /\ \A x \in {0, 1}, z \in {0, 1} :
           /\ uv_point(ret, <<x, 0, z>>) =
                <<[n |-> OriginX(call.tileset, call.tile_id) + x * call.tileset.tile_width,
                   d |-> call.tileset.image_width],
                  [n |-> call.tileset.image_height
                         - (OriginY(call.tileset, call.tile_id)
                            + (1 - z) * call.tileset.tile_height),
                   d |-> call.tileset.image_height]>>
           /\ \A k \in 1..2 :
                /\ 0 <= uv_point(ret, <<x, 0, z>>)[k].n
                /\ uv_point(ret, <<x, 0, z>>)[k].n <= uv_point(ret, <<x, 0, z>>)[k].d
      /\ (call.tileset = Atlas(32, 32, 0, 0, 4, 2, 0) /\ call.tile_id = 5) =>
           /\ uv_point(ret, <<0, 0, 1>>)[1].n = 32
           /\ call.tileset.image_height - uv_point(ret, <<0, 0, 1>>)[2].n = 32

C7_Witness ==
    /\ UvReturned
    /\ call.tileset = Atlas(32, 32, 0, 0, 4, 2, 0) /\ call.tile_id = 5
    /\ ret.err = "none"
    /\ uv_point(ret, <<0, 0, 0>>) = <<[n |-> 32, d |-> 128], [n |-> 0, d |-> 64]>>
    /\ uv_point(ret, <<1, 0, 1>>) = <<[n |-> 64, d |-> 128], [n |-> 32, d |-> 64]>>

\* The gids firstgid + tile.id of the tiles of a tileset that carry
\* object-layer metadata
MetadataKeys(tileset) ==
    IF tileset.tiles_is_none THEN {}
    ELSE {Gid(0, tileset.firstgid + tileset.tiles[k].id) :
            k \in {n \in 1..Len(tileset.tiles) : tileset.tiles[n].objects.is_object_layer}}

\* C6: after load_colliders(tileset) has returned on an empty registry the
\* registry's keys are exactly the gids firstgid + tile.id of the tiles with
\* object-layer metadata; get_collider finds exactly the gids that are keys
\* and leaves the registry as it was.
C6_RegistryKeys ==
    /\ (call.op = "load_colliders" /\ call.before = EmptyRegistry /\ ret.err = "none") =>
         DOMAIN colliders = MetadataKeys(call.tileset)
    /\ call.op = "get_collider" =>
         /\ colliders = call.before
         /\ ret.found <=> call.gid \in DOMAIN call.before

C6_Witness ==
    /\ call.op = "load_colliders" /\ call.before = EmptyRegistry /\ ret.err = "none"
    /\ call.tileset.firstgid = 11
    /\ DOMAIN colliders = {Gid(0, 12)}
    /\ colliders[Gid(0, 12)] = <<[min |-> <<0, -16, -16>>, max |-> <<32, 16, 0>>]>>

\* C2: the top-level load_map fails with an unsupported-input error when the
\* map is infinite or not orthogonal, and then no step of the loader has run:
\* the registry is empty, no layer is composed, no node is constructed.
C2_RejectedFirst ==
    (tiled_map.infinite \/ tiled_map.orientation # "orthogonal") =>
      /\ pc \in {"validate", "failed"}
      /\ pc = "failed" => error = "UnsupportedError"
      /\ colliders = EmptyRegistry /\ ts_idx = 0
      /\ layer_idx = 0 /\ ~map_root.constructed /\ map_root.children = <<>>
      /\ result = NoNode

C2_Witness ==
    /\ pc = "failed" /\ error = "UnsupportedError"
    /\ ~tiled_map.infinite /\ tiled_map.orientation = "isometric"
    /\ tiled_map.tilesets = <<TilesetA, TilesetBColl>>
    /\ Len(tiled_map.layers) = 2
    /\ colliders = EmptyRegistry /\ ~map_root.constructed

\* The gids of the tile-layer cells and tile objects of a layer
RECURSIVE LayerGids(_)
LayerGids(layer) ==
    CASE layer.kind = "TileLayer" ->
           {Cells(layer)[k].gid : k \in 1..Len(Cells(layer))}
      [] layer.kind = "ObjectLayer" ->
           {layer.tiled_objects[k].gid :
              k \in {n \in 1..Len(layer.tiled_objects) : layer.tiled_objects[n].kind = "Tile"}}
      [] layer.kind = "LayerGroup" ->
           UNION {LayerGids(layer.layers[k]) : k \in 1..Len(layer.layers)}
      [] OTHER -> {}

\* The map holds a non-empty gid that no tileset owns
HasUnownedGid(m) ==
    \E k \in 1..Len(m.layers) : \E g \in LayerGids(m.layers[k]) :
        g # Gid(0, 0) /\ Owners(m.tilesets, g.lo) = {}

\* C4: a load never completes on a map with a non-empty gid that no tileset
\* owns: it fails with a lookup error and returns no node.
C4_UnownedGidFails ==
    HasUnownedGid(tiled_map) =>
      /\ pc # "done"
      /\ result = NoNode

\* The cells among the first n of a layer that satisfy P
CountCells(layer, n, P(_)) == Cardinality({k \in 1..n : P(Cells(layer)[k].gid)})

NonEmpty(gid) == gid # Gid(0, 0)
Registered(gid) == gid \in DOMAIN colliders
RegisteredBase(gid) == Gid(0, gid.lo) \in DOMAIN colliders

\* C5: a composed tile layer has 6 vertices per non-empty cell and none for
\* an empty one, and one collider per cell whose gid is a key of the registry
\* and none for any other; the layer [5, 0] has 6 vertices and 1 or 0
\* colliders as gid 5 is registered or not.
C5_VerticesAndColliders ==
    /\ pc \in {"cells", "composed"} =>
         /\ Len(vertex_data) = 6 * CountCells(cur_layer, cell_idx, NonEmpty)
         /\ Len(collider_parent) = CountCells(cur_layer, cell_idx, Registered)
    /\ pc = "composed" =>
         /\ cell_idx = Len(Cells(cur_layer))
         /\ map_root.children[1].cluster.num_vertices = Len(vertex_data)
         /\ map_root.children[1].cluster.vertex_data = vertex_data
         /\ map_root.children[1].collider_parent = collider_parent
         /\ cur_layer.data = <<<<ToGid(5), ToGid(0)>>>> =>
              /\ map_root.children[1].cluster.num_vertices = 6
              /\ Len(collider_parent) = IF ToGid(5) \in DOMAIN colliders THEN 1 ELSE 0

C5_Witness ==
    /\ pc = "composed"
    /\ cur_layer.data = <<<<ToGid(5), ToGid(0)>>>>
    /\ map_root.children[1].cluster.num_vertices = 6
    /\ Len(map_root.children[1].collider_parent) = 1

\* The keys the tilesets of a map give the registry
AllKeys(m) == UNION {MetadataKeys(m.tilesets[k]) : k \in 1..Len(m.tilesets)}

Composing == map_root.constructed

\* C9: in every run of load_map the registry holds the colliders of every
\* tileset before the first layer is composed, and no entry is added, removed
\* or replaced from then until load_map returns or fails; so the node of a
\* layer is the same wherever the layer stands in the map.
C9_RegistryFrozen ==
    /\ [](Composing =>
            /\ ts_idx = Len(tiled_map.tilesets)
            /\ DOMAIN colliders = AllKeys(tiled_map)
            /\ \A k \in 1..Len(map_root.children) :
                 map_root.children[k] =
                   load_layer(tiled_map, colliders, tiled_map.layers[k]).node)
    /\ [][Composing => colliders' = colliders]_vars

C9_Witness ==
    /\ pc = "done"
    /\ Len(tiled_map.layers) = 2
    /\ tiled_map.layers[1].kind = "ObjectLayer" /\ tiled_map.layers[2].kind = "TileLayer"
    /\ DOMAIN colliders = {Gid(0, 5), Gid(0, 12)}
    /\ Len(result.children) = 2
    /\ Len(result.children[2].collider_parent) = 2

\* C10: a collider is attached for every tile-layer cell and every tile
\* object whose gid without its flag bits is a key of the registry, whatever
\* flag bits the gid carries.
C10_FlagsIgnored ==
    \A k \in 1..Len(map_root.children) :
      /\ tiled_map.layers[k].kind = "TileLayer" =>
           Len(map_root.children[k].collider_parent) =
             CountCells(tiled_map.layers[k], Len(Cells(tiled_map.layers[k])), RegisteredBase)
      /\ tiled_map.layers[k].kind = "ObjectLayer" =>
           \A n \in 1..Len(tiled_map.layers[k].tiled_objects) :
             (/\ tiled_map.layers[k].tiled_objects[n].kind = "Tile"
              /\ RegisteredBase(tiled_map.layers[k].tiled_objects[n].gid)) =>
               map_root.children[k].children[n].tile[1].colliders # <<>>

====
